---------------------------- MODULE Spec2Model ----------------------------
(***************************************************************************)
(* A model of the SuperTrend trading bot: the indicator engine and signal  *)
(* engine of infrastructure/technical_analysis.py and the per-pair cycle   *)
(* of application/use_cases.py.                                            *)
(*                                                                         *)
(* Prices are integers (ticks).  The price levels the inputs are drawn     *)
(* from are even, so that the midpoint (high + low) / 2 is exact.          *)
(* The pandas-ta calls are modelled by what pandas-ta computes for the     *)
(* default configuration ATR_PERIOD = 1, ATR_FACTOR = 3.0,                 *)
(* PIVOT_PERIOD = 6.  Optional values (None, NaN) are << >>, a present     *)
(* value v is << v >>.  The open and volume of a bar are copied into the   *)
(* frame by the code and read by no computation; the model leaves them out.*)
(***************************************************************************)
EXTENDS Integers, Sequences, FiniteSets, TLC

---------------------------------------------------------------------------
(* Program constants *)

\* TechnicalAnalysisService.__init__ defaults (and Settings defaults)
pivot_period == 6
atr_factor == 3
atr_period == 1
\* pandas-ta lookbacks used by _calculate_indicators
RsiLength == 14
MacdFast == 12
MacdSlow == 26
MacdSignal == 9
\* The floats of the oscillators are fixed-point numbers: FixedPoint units
\* to one tick of price
FixedPoint == 1000
\* _calculate_dynamic_sr looks at the last 100 rows
SrWindow == 100
\* _generate_signal
risk_reward_ratio == 2

---------------------------------------------------------------------------
(* Optional values *)

None == << >>
Some(v) == << v >>
IsSome(o) == o # None
Val(o) == o[1]

Abs(x) == IF x < 0 THEN -x ELSE x
Max2(a, b) == IF a >= b THEN a ELSE b
Min2(a, b) == IF a <= b THEN a ELSE b
SetMax(S) == CHOOSE x \in S : \A y \in S : y <= x
SetMin(S) == CHOOSE x \in S : \A y \in S : x <= y

---------------------------------------------------------------------------
(* State: the calls made on one TechnicalAnalysisService                   *)

VARIABLES
    primary,    \* primary_market_data of the last call
    higher,     \* higher_market_data of the last call
    out,        \* what the last call handed back (None before any call)
    prev,       \* the call before it: its arguments and what it handed back
    clock,      \* the wall clock
    calls,      \* the number of calls made
    settings,   \* the Settings the use case was built with
    cycle,      \* where analyze_and_notify stands
    tasks,      \* the per-pair tasks of the cycle, by position in TRADING_PAIRS
    sent,       \* the calls made on the notification service, in order
    engine,     \* the last run of the indicator engine on its own (or None)
    app         \* the run of main the cycle belongs to (or None)

service_vars == << primary, higher, out, prev, calls >>
cycle_vars == << settings, cycle, tasks, sent >>
vars == << primary, higher, out, prev, clock, calls,
           settings, cycle, tasks, sent, engine, app >>

---------------------------------------------------------------------------
(* _market_data_to_dataframe: the frame is the bars ordered by timestamp   *)
(* (set_index, sort_index).  The loops below take their position from the  *)
(* length of what they have built.                                         *)

\* b put into the ordered rows, after the rows that are not later than it
InsertByTs(sorted, b) ==
    IF Len(sorted) = 0 \/ sorted[Len(sorted)].ts <= b.ts
    THEN Append(sorted, b)
    ELSE LET k == Cardinality({ j \in 1..Len(sorted) : sorted[j].ts <= b.ts })
         IN SubSeq(sorted, 1, k) \o << b >> \o SubSeq(sorted, k + 1, Len(sorted))

RECURSIVE SortByTs(_, _)
SortByTs(market_data, acc) ==
    IF Len(acc) >= Len(market_data) THEN acc
    ELSE SortByTs(market_data,
                  InsertByTs(acc, market_data[Len(acc) + 1]))

\* The frame without line 52: the rows in the order they were given
market_data_to_dataframe_unsorted(market_data) == market_data

market_data_to_dataframe(market_data) == SortByTs(market_data, << >>)

---------------------------------------------------------------------------
(* df.ta.supertrend(length=1, multiplier=self.atr_factor)                  *)

hl2(b) == (b.high + b.low) \div 2

\* multiplier * atr with self.atr_factor (line 33), which main.py line 59
\* takes from settings.ATR_FACTOR
self_atr_factor(atr) ==
    (settings.ATR_FACTOR.num * atr) \div settings.ATR_FACTOR.den

\* pandas-ta true_range; with length 1 the ATR of a row is its true range.
\* Row 1 has no previous close: its true range, and both bands, are NaN.
TrueRange(df, i) ==
    Max2(Abs(df[i].high - df[i].low),
         Max2(Abs(df[i].high - df[i - 1].close),
              Abs(df[i - 1].close - df[i].low)))

\* The supertrend loop comparing the close with the wrong band of row i - 1
SupertrendRow_wrong_band(df, i, last) ==
    LET matr == self_atr_factor(TrueRange(df, i))
        ubC == hl2(df[i]) + matr
        lbC == hl2(df[i]) - matr
        up == IsSome(last.lb) /\ df[i].close > Val(last.lb)
        down == ~up /\ IsSome(last.ub) /\ df[i].close < Val(last.ub)
        d == IF up THEN 1 ELSE IF down THEN -1 ELSE last.direction
        keep == ~up /\ ~down
        lb == IF keep /\ d > 0 /\ IsSome(last.lb) /\ lbC < Val(last.lb)
              THEN Val(last.lb) ELSE lbC
        ub == IF keep /\ d < 0 /\ IsSome(last.ub) /\ ubC > Val(last.ub)
              THEN Val(last.ub) ELSE ubC
    IN [supertrend |-> IF d > 0 THEN lb ELSE ub, direction |-> d,
        ub |-> Some(ub), lb |-> Some(lb)]

\* Row i of the supertrend loop from row i - 1 (last).  ub and lb are the
\* bands after the loop has ratcheted them; a comparison with a NaN band
\* (the bands of row 1) is false.
SupertrendRow(df, i, last) ==
    LET matr == self_atr_factor(TrueRange(df, i))
        ubC == hl2(df[i]) + matr
        lbC == hl2(df[i]) - matr
        up == IsSome(last.ub) /\ df[i].close > Val(last.ub)
        down == ~up /\ IsSome(last.lb) /\ df[i].close < Val(last.lb)
        d == IF up THEN 1 ELSE IF down THEN -1 ELSE last.direction
        keep == ~up /\ ~down
        lb == IF keep /\ d > 0 /\ IsSome(last.lb) /\ lbC < Val(last.lb)
              THEN Val(last.lb) ELSE lbC
        ub == IF keep /\ d < 0 /\ IsSome(last.ub) /\ ubC > Val(last.ub)
              THEN Val(last.ub) ELSE ubC
    IN [supertrend |-> IF d > 0 THEN lb ELSE ub, direction |-> d,
        ub |-> Some(ub), lb |-> Some(lb)]

RECURSIVE SupertrendLoop(_, _)
SupertrendLoop(df, acc) ==
    IF Len(acc) >= Len(df) THEN acc
    ELSE SupertrendLoop(df, Append(acc, SupertrendRow(df, Len(acc) + 1,
                                                      acc[Len(acc)])))

\* dir_ = [1] * m, trend = [0] * m; the loop starts at the second row.
supertrend(df) ==
    IF Len(df) = 0 THEN << >>
    ELSE SupertrendLoop(df, << [supertrend |-> 0, direction |-> 1,
                                ub |-> None, lb |-> None] >>)

---------------------------------------------------------------------------
(* rolling(window = 2 * pivot_period + 1, center = True).max() / .min()    *)

\* The value of row i: NaN unless the whole centred window is in the frame
\* rolling without center = True: the window ends at row i
pivot_high_at_trailing(df, i) ==
    IF i - 2 * pivot_period >= 1
    THEN Some(SetMax({ df[j].high : j \in (i - 2 * pivot_period)..i }))
    ELSE None

pivot_high_at(df, i) ==
    IF i - pivot_period >= 1 /\ i + pivot_period <= Len(df)
    THEN Some(SetMax({ df[j].high : j \in (i - pivot_period)..(i + pivot_period) }))
    ELSE None

pivot_low_at(df, i) ==
    IF i - pivot_period >= 1 /\ i + pivot_period <= Len(df)
    THEN Some(SetMin({ df[j].low : j \in (i - pivot_period)..(i + pivot_period) }))
    ELSE None

RECURSIVE rolling_pivot_high(_, _)
rolling_pivot_high(df, acc) ==
    IF Len(acc) >= Len(df) THEN acc
    ELSE rolling_pivot_high(df, Append(acc, pivot_high_at(df, Len(acc) + 1)))

RECURSIVE rolling_pivot_low(_, _)
rolling_pivot_low(df, acc) ==
    IF Len(acc) >= Len(df) THEN acc
    ELSE rolling_pivot_low(df, Append(acc, pivot_low_at(df, Len(acc) + 1)))

\* df.bfill(): a gap takes the next defined value below it.  acc holds the
\* filled rows Len(col) - Len(acc) + 1 .. Len(col).
RECURSIVE bfill(_, _)
bfill(col, acc) ==
    IF Len(acc) >= Len(col) THEN acc
    ELSE LET v == col[Len(col) - Len(acc)]
         IN bfill(col, << IF IsSome(v) \/ Len(acc) = 0 THEN v ELSE acc[1] >>
                       \o acc)

\* df.ffill(): a gap takes the last defined value above it
RECURSIVE ffill(_, _)
ffill(col, acc) ==
    IF Len(acc) >= Len(col) THEN acc
    ELSE LET v == col[Len(acc) + 1]
         IN ffill(col, Append(acc, IF IsSome(v) \/ Len(acc) = 0 THEN v
                                   ELSE acc[Len(acc)]))

\* The fill without line 75: forward only
fill_forward_only(col) == ffill(col, << >>)

fill(col) == ffill(bfill(col, << >>), << >>)

---------------------------------------------------------------------------
(* df.ta.rsi(length=14)                                                    *)

\* positive and negative of pandas-ta rsi: the rise and the fall of the
\* close from the row before (row 1 has none)
Gain(df, i) == Max2(df[i].close - df[i - 1].close, 0)
Loss(df, i) == Max2(df[i - 1].close - df[i].close, 0)

\* One step of rma (ewm with alpha = 1 / length): the weighted sum so far
\* decays by (length - 1) / length and takes the new sample.  Both averages
\* of rsi are divided by the same sum of weights, which the ratio cancels.
\* The decay rounds up: a sum that was positive stays positive, as it does
\* in the floats for any series the exchange can return.
RmaStep(sum, x) ==
    FixedPoint * x + ((RsiLength - 1) * sum + RsiLength - 1) \div RsiLength

\* acc[i] = << positive sum, negative sum >> of rows 2..i (row 1: zeros)
RECURSIVE RmaLoop(_, _)
RmaLoop(df, acc) ==
    IF Len(acc) >= Len(df) THEN acc
    ELSE LET i == Len(acc) + 1
             p == acc[Len(acc)]
         IN RmaLoop(df, Append(acc, << RmaStep(p[1], Gain(df, i)),
                                       RmaStep(p[2], Loss(df, i)) >>))

\* 100 * positive_avg / (positive_avg + |negative_avg|); min_periods leaves
\* the first RsiLength rows NaN, and 0 / 0 is NaN
rsi_at(sums, i) ==
    IF i <= RsiLength \/ sums[i][1] + sums[i][2] = 0 THEN None
    ELSE Some((100 * sums[i][1]) \div (sums[i][1] + sums[i][2]))

RECURSIVE RsiLoop(_, _)
RsiLoop(sums, acc) ==
    IF Len(acc) >= Len(sums) THEN acc
    ELSE RsiLoop(sums, Append(acc, rsi_at(sums, Len(acc) + 1)))

rsi(df) ==
    IF Len(df) = 0 THEN << >>
    ELSE RsiLoop(RmaLoop(df, << << 0, 0 >> >>), << >>)

---------------------------------------------------------------------------
(* df.ta.macd(fast=12, slow=26, signal=9)                                  *)

RECURSIVE SumTo(_, _)
SumTo(xs, n) == IF n = 0 THEN 0 ELSE xs[n] + SumTo(xs, n - 1)

\* pandas-ta ema of the values xs (no gaps, at least length of them): NaN
\* before row length, there the mean of the first length values, after it
\* ema = (2 * x + (length - 1) * ema) / (length + 1)
RECURSIVE EmaLoop(_, _, _)
EmaLoop(xs, length, acc) ==
    IF Len(acc) >= Len(xs) THEN acc
    ELSE LET i == Len(acc) + 1
         IN EmaLoop(xs, length, Append(acc,
                IF i < length THEN None
                ELSE IF i = length THEN Some(SumTo(xs, length) \div length)
                ELSE Some((2 * xs[i] + (length - 1) * Val(acc[i - 1]))
                              \div (length + 1))))

ema(xs, length) == EmaLoop(xs, length, << >>)

\* close, in fixed point
RECURSIVE ScaledClose(_, _)
ScaledClose(df, acc) ==
    IF Len(acc) >= Len(df) THEN acc
    ELSE ScaledClose(df, Append(acc, FixedPoint * df[Len(acc) + 1].close))

\* fastma - slowma, defined from row MacdSlow on
RECURSIVE MacdLine(_, _, _)
MacdLine(fastma, slowma, acc) ==
    IF Len(acc) >= Len(slowma) THEN acc
    ELSE LET i == Len(acc) + 1
         IN MacdLine(fastma, slowma, Append(acc,
                IF IsSome(slowma[i]) THEN Some(Val(fastma[i]) - Val(slowma[i]))
                ELSE None))

\* macd.loc[macd.first_valid_index():]: the values of the defined rows
RECURSIVE ValidPart(_, _)
ValidPart(line, acc) ==
    IF Len(acc) + MacdSlow - 1 >= Len(line) THEN acc
    ELSE ValidPart(line, Append(acc, Val(line[Len(acc) + MacdSlow])))

\* A column of gaps as long as the rows before the first defined MACD row
Gaps == [i \in 1..(MacdSlow - 1) |-> None]

\* The MACD line and its signal line (ema of the defined part of the line)
macd(df) ==
    LET close == ScaledClose(df, << >>)
        line == MacdLine(ema(close, MacdFast), ema(close, MacdSlow), << >>)
        signalma == ema(ValidPart(line, << >>), MacdSignal)
    IN [macd_line |-> line,
        macd_signal |-> IF Len(df) < MacdSlow THEN line ELSE Gaps \o signalma]

---------------------------------------------------------------------------
(* TechnicalAnalysisService._calculate_indicators                          *)

\* The rows df.ta.macd needs to build both of its lines
MacdRows == MacdSlow + MacdSignal - 1

\* What the call raises.  df.ta.macd returns None for fewer than MacdSlow
\* rows and line 67 subscripts it (TypeError).  From there up to MacdRows
\* the signal ema has too few values and is None, and pandas-ta subtracts
\* it from the MACD line (TypeError inside line 66); a build with TA-Lib
\* installed returns NaN columns there instead, so the inputs of the model
\* leave those lengths out.  df.ta.rsi returns None for fewer than 14 rows,
\* which line 63 stores as an empty column without raising.
calculate_indicators_raises(df) ==
    IF Len(df) < MacdRows THEN Some("TypeError") ELSE None

\* The columns as lines 57-72 leave them, gaps included
raw_indicators(df) ==
    LET macd_df == macd(df)
    IN [rows |-> df,
        st |-> supertrend(df),
        rsi |-> rsi(df),
        macd_line |-> macd_df.macd_line,
        macd_signal |-> macd_df.macd_signal,
        pivot_high |-> rolling_pivot_high(df, << >>),
        pivot_low |-> rolling_pivot_low(df, << >>)]

\* lines 75-76 applied to columns raw: bfill then ffill
fill_indicators(raw) ==
    [rows |-> raw.rows,
     st |-> raw.st,
     rsi |-> fill(raw.rsi),
     macd_line |-> fill(raw.macd_line),
     macd_signal |-> fill(raw.macd_signal),
     pivot_high |-> fill(raw.pivot_high),
     pivot_low |-> fill(raw.pivot_low)]

\* The frame with its indicator columns, bfill then ffill applied.
calculate_indicators(df) == fill_indicators(raw_indicators(df))

\* df.iloc[i] of the indicator frame
Row(ind, i) ==
    [name |-> ind.rows[i].ts,
     close |-> ind.rows[i].close,
     supertrend |-> ind.st[i].supertrend,
     supertrend_direction |-> ind.st[i].direction,
     rsi |-> ind.rsi[i],
     macd_line |-> ind.macd_line[i],
     macd_signal |-> ind.macd_signal[i]]

---------------------------------------------------------------------------
(* TechnicalAnalysisService._calculate_dynamic_sr                          *)

\* recent_values without tail(100): every row of the column
recent_values_whole_column(col) ==
    { Val(col[i]) : i \in { j \in 1..Len(col) : IsSome(col[j]) } }

\* df.tail(100)[column].dropna().unique()
recent_values(col) ==
    { Val(col[i]) : i \in { j \in Max2(1, Len(col) - SrWindow + 1)..Len(col) :
                            IsSome(col[j]) } }

\* calculate_dynamic_sr with >= and <= for > and <
calculate_dynamic_sr_not_strict(ind) ==
    LET recent_highs == recent_values(ind.pivot_high)
        recent_lows == recent_values(ind.pivot_low)
        current_price == ind.rows[Len(ind.rows)].close
        above == { p \in recent_highs : p >= current_price }
        below == { p \in recent_lows : p <= current_price }
    IN [support |-> IF below = {} THEN None ELSE Some(SetMax(below)),
        resistance |-> IF above = {} THEN None ELSE Some(SetMin(above))]

calculate_dynamic_sr(ind) ==
    LET recent_highs == recent_values(ind.pivot_high)
        recent_lows == recent_values(ind.pivot_low)
        current_price == ind.rows[Len(ind.rows)].close
        above == { p \in recent_highs : p > current_price }
        below == { p \in recent_lows : p < current_price }
    IN [support |-> IF below = {} THEN None ELSE Some(SetMax(below)),
        resistance |-> IF above = {} THEN None ELSE Some(SetMin(above))]

---------------------------------------------------------------------------
(* TechnicalAnalysisService._generate_signal                               *)

TrendOf(direction) == IF direction = 1 THEN "BULLISH" ELSE "BEARISH"

\* signal_type_of without the higher-timeframe gate
signal_type_of_ungated(current_data, previous_data, higher_timeframe_trend) ==
    LET current_trend_val == current_data.supertrend_direction
        prev_trend_val == previous_data.supertrend_direction
    IN IF current_trend_val = 1 /\ prev_trend_val = -1 THEN Some("BUY")
       ELSE IF current_trend_val = -1 /\ prev_trend_val = 1 THEN Some("SELL")
       ELSE None

\* signal_type_of reading the crossover from the current bar alone
signal_type_of_no_previous(current_data, previous_data, higher_timeframe_trend) ==
    LET current_trend_val == current_data.supertrend_direction
    IN IF current_trend_val = 1
       THEN (IF higher_timeframe_trend = "BULLISH" THEN Some("BUY") ELSE None)
       ELSE (IF higher_timeframe_trend = "BEARISH" THEN Some("SELL") ELSE None)

\* lines 109-125: the crossover and the higher-timeframe gate
signal_type_of(current_data, previous_data, higher_timeframe_trend) ==
    LET current_trend_val == current_data.supertrend_direction
        prev_trend_val == previous_data.supertrend_direction
    IN IF current_trend_val = 1 /\ prev_trend_val = -1
       THEN (IF higher_timeframe_trend = "BULLISH" THEN Some("BUY") ELSE None)
       ELSE IF current_trend_val = -1 /\ prev_trend_val = 1
       THEN (IF higher_timeframe_trend = "BEARISH" THEN Some("SELL") ELSE None)
       ELSE None

\* Python truthiness of an Optional[float]: None and 0.0 are false
Truthy(o) == IsSome(o) /\ Val(o) # 0

\* take_profit_of without the adjustment to the nearest level
take_profit_of_uncapped(signal_type, current_price, stop_loss, sr_levels) ==
    LET risk == Abs(current_price - stop_loss)
    IN IF signal_type = "BUY"
       THEN current_price + risk * risk_reward_ratio
       ELSE current_price - risk * risk_reward_ratio

\* lines 127-146: take-profit from the 2:1 target and the nearest level
take_profit_of(signal_type, current_price, stop_loss, sr_levels) ==
    LET risk == Abs(current_price - stop_loss)
    IN IF signal_type = "BUY"
       THEN LET potential_tp == current_price + risk * risk_reward_ratio
            IN IF Truthy(sr_levels.resistance)
                  /\ Val(sr_levels.resistance) > current_price
               THEN Min2(potential_tp, Val(sr_levels.resistance))
               ELSE potential_tp
       ELSE LET potential_tp == current_price - risk * risk_reward_ratio
            IN IF Truthy(sr_levels.support)
                  /\ Val(sr_levels.support) < current_price
               THEN Max2(potential_tp, Val(sr_levels.support))
               ELSE potential_tp

\* generate_signal taking the stop-loss from the bar before the trigger bar
generate_signal_previous_stop(symbol, current_data, previous_data, sr_levels, higher_timeframe_trend) ==
    LET current_price == current_data.close
        signal_type == signal_type_of(current_data, previous_data,
                                      higher_timeframe_trend)
        stop_loss == previous_data.supertrend
    IN IF signal_type = None THEN None
       ELSE Some([symbol |-> symbol,
                  signal_type |-> Val(signal_type),
                  timestamp |-> current_data.name,
                  price |-> current_price,
                  supertrend_value |-> current_data.supertrend,
                  trend_direction |-> TrendOf(current_data.supertrend_direction),
                  entry_price |-> current_price,
                  stop_loss |-> stop_loss,
                  take_profit |-> take_profit_of(Val(signal_type), current_price,
                                                 stop_loss, sr_levels),
                  support_level |-> sr_levels.support,
                  resistance_level |-> sr_levels.resistance,
                  timeframe |-> "1h/4h",
                  higher_tf_trend |-> None,
                  ai_insight |-> None,
                  ai_confidence_score |-> None])

\* generate_signal reading the primary trend from the bar before the
\* trigger bar
generate_signal_previous_trend(symbol, current_data, previous_data, sr_levels, higher_timeframe_trend) ==
    LET current_price == current_data.close
        signal_type == signal_type_of(current_data, previous_data,
                                      higher_timeframe_trend)
        stop_loss == current_data.supertrend
    IN IF signal_type = None THEN None
       ELSE Some([symbol |-> symbol,
                  signal_type |-> Val(signal_type),
                  timestamp |-> current_data.name,
                  price |-> current_price,
                  supertrend_value |-> current_data.supertrend,
                  trend_direction |-> TrendOf(previous_data.supertrend_direction),
                  entry_price |-> current_price,
                  stop_loss |-> stop_loss,
                  take_profit |-> take_profit_of(Val(signal_type), current_price,
                                                 stop_loss, sr_levels),
                  support_level |-> sr_levels.support,
                  resistance_level |-> sr_levels.resistance,
                  timeframe |-> "1h/4h",
                  higher_tf_trend |-> None,
                  ai_insight |-> None,
                  ai_confidence_score |-> None])

generate_signal(symbol, current_data, previous_data, sr_levels, higher_timeframe_trend) ==
    LET current_price == current_data.close
        signal_type == signal_type_of(current_data, previous_data,
                                      higher_timeframe_trend)
        stop_loss == current_data.supertrend
    IN IF signal_type = None THEN None
       ELSE Some([symbol |-> symbol,
                  signal_type |-> Val(signal_type),
                  timestamp |-> current_data.name,
                  price |-> current_price,
                  supertrend_value |-> current_data.supertrend,
                  trend_direction |-> TrendOf(current_data.supertrend_direction),
                  entry_price |-> current_price,
                  stop_loss |-> stop_loss,
                  take_profit |-> take_profit_of(Val(signal_type), current_price,
                                                 stop_loss, sr_levels),
                  support_level |-> sr_levels.support,
                  resistance_level |-> sr_levels.resistance,
                  timeframe |-> "1h/4h",
                  higher_tf_trend |-> None,
                  ai_insight |-> None,
                  ai_confidence_score |-> None])


---------------------------------------------------------------------------
(* TechnicalAnalysisService.analyze_market                                 *)

\* The try block, lines 167-198: the exception it ends with and the local
\* variables it has bound by then.  An empty list gives a frame without a
\* timestamp column (KeyError at line 51); a short one fails in
\* _calculate_indicators.  The higher timeframe is processed first.

\* lines 169-172: the higher series is processed first; its last row gives
\* the higher-timeframe trend
higher_step(higher_market_data) ==
    IF Len(higher_market_data) = 0
    THEN [exc |-> Some("KeyError"), step |-> "higher"]
    ELSE IF IsSome(calculate_indicators_raises(
                       market_data_to_dataframe(higher_market_data)))
    THEN [exc |-> calculate_indicators_raises(
                      market_data_to_dataframe(higher_market_data)),
          step |-> "higher"]
    ELSE
    LET df_higher == calculate_indicators(
                         market_data_to_dataframe(higher_market_data))
        higher_trend_val == df_higher.st[Len(df_higher.st)].direction
    IN [exc |-> None, step |-> "primary",
        higher_timeframe_trend |-> TrendOf(higher_trend_val)]

\* lines 175-198 after a higher step that ended as higher_locals
try_block_from(symbol, primary_market_data, higher_locals) ==
    IF higher_locals.exc # None
    THEN [exc |-> higher_locals.exc, step |-> "higher"]
    ELSE IF Len(primary_market_data) = 0
    THEN [exc |-> Some("KeyError"), step |-> "primary"]
    ELSE IF IsSome(calculate_indicators_raises(
                       market_data_to_dataframe(primary_market_data)))
    THEN [exc |-> calculate_indicators_raises(
                      market_data_to_dataframe(primary_market_data)),
          step |-> "primary"]
    ELSE
    LET higher_timeframe_trend == higher_locals.higher_timeframe_trend
        df_primary == calculate_indicators(
                          market_data_to_dataframe(primary_market_data))
        sr_levels == calculate_dynamic_sr(df_primary)
        latest_data == Row(df_primary, Len(df_primary.rows))
        previous_data == Row(df_primary, Len(df_primary.rows) - 1)
        signal == generate_signal(symbol, latest_data, previous_data,
                                  sr_levels, higher_timeframe_trend)
        indicator_data ==
            [symbol |-> symbol,
             timestamp |-> latest_data.name,
             supertrend |-> latest_data.supertrend,
             trend_direction |-> TrendOf(latest_data.supertrend_direction),
             support_level |-> sr_levels.support,
             resistance_level |-> sr_levels.resistance,
             rsi |-> latest_data.rsi,
             macd_line |-> latest_data.macd_line,
             macd_signal |-> latest_data.macd_signal]
    IN [exc |-> None, step |-> "done",
        higher_timeframe_trend |-> higher_timeframe_trend,
        df_primary |-> df_primary,
        sr_levels |-> sr_levels,
        signal |-> signal,
        indicator_data |-> indicator_data]

\* The try block of analyze_market, lines 167-198
try_block(symbol, primary_market_data, higher_market_data) ==
    try_block_from(symbol, primary_market_data, higher_step(higher_market_data))

\* analysis_result stamping the snapshot with the wall clock
analysis_result_snapshot_now(symbol, primary_market_data, locals, start_time, now) ==
    [symbol |-> symbol,
     timeframe |-> "1h/4h",
     timestamp |-> now,
     market_data |-> primary_market_data[Len(primary_market_data)],
     indicator_data |-> [locals.indicator_data EXCEPT !.timestamp = now],
     signal |-> locals.signal,
     higher_tf_trend |-> locals.higher_timeframe_trend,
     analysis_duration_ms |-> now - start_time]

\* lines 204-209; now is the reading of the wall clock at the return and
\* start_time the one at entry
analysis_result(symbol, primary_market_data, locals, start_time, now) ==
    [symbol |-> symbol,
     timeframe |-> "1h/4h",
     timestamp |-> now,
     market_data |-> primary_market_data[Len(primary_market_data)],
     indicator_data |-> locals.indicator_data,
     signal |-> locals.signal,
     higher_tf_trend |-> locals.higher_timeframe_trend,
     analysis_duration_ms |-> now - start_time]

\* call_outcome without the except clause: the exception leaves the call
call_outcome_propagates(symbol, primary_market_data, locals, start_time, now) ==
    IF IsSome(locals.exc)
    THEN [returned |-> None, raised |-> locals.exc, logged |-> None,
          locals |-> locals]
    ELSE [returned |-> Some(analysis_result(symbol, primary_market_data,
                                            locals, start_time, now)),
          raised |-> None, logged |-> None, locals |-> locals]

\* What a call hands back once its try block has ended with locals: the
\* value it returns (None after an exception, lines 200-202), the exception
\* that leaves it, the exception it logged with logger.error, and the
\* locals of its try block.
call_outcome(symbol, primary_market_data, locals, start_time, now) ==
    IF IsSome(locals.exc)
    THEN [returned |-> None, raised |-> None, logged |-> locals.exc,
          locals |-> locals]
    ELSE [returned |-> Some(analysis_result(symbol, primary_market_data,
                                            locals, start_time, now)),
          raised |-> None, logged |-> None, locals |-> locals]

analyze_market(symbol, primary_market_data, higher_market_data, start_time, now) ==
    call_outcome(symbol, primary_market_data,
                 try_block(symbol, primary_market_data, higher_market_data),
                 start_time, now)

---------------------------------------------------------------------------
(* Inputs: bar series drawn from a small family                            *)

\* Price levels (ticks, even): two adjacent middle levels and a far level
\* on either side
Levels == {10, 30, 32, 52}
MidLevels == {30, 32}

\* High, low and close of a bar: low <= close <= high
Shapes == { s \in [high : Levels, low : Levels, close : Levels] :
              s.low <= s.close /\ s.close <= s.high }

FlatShape(l) == [high |-> l, low |-> l, close |-> l]

\* Bounds of the model
LeadLen == 2
MaxCallTicks == 2
MaxCalls == 3
PrimaryLens == {2, MacdRows, 60, 108}
HigherLens == {20, MacdRows}

\* A series of n bars with timestamps 1..n: LeadLen flat bars at lead, flat
\* bars at body, and the bars of tail last.
Series(n, lead, body, tail) ==
    [i \in 1..n |->
        LET k == i - (n - Len(tail))
            s == IF k >= 1 THEN tail[k]
                 ELSE IF i <= LeadLen THEN FlatShape(lead)
                 ELSE FlatShape(body)
        IN [ts |-> i, high |-> s.high, low |-> s.low, close |-> s.close]]

PrimaryInputs ==
    { Series(n, lead, body, << FlatShape(t1), t2 >>) :
        n \in PrimaryLens, lead \in Levels, body \in MidLevels,
        t1 \in MidLevels, t2 \in Shapes }

\* The bars of series, latest first
Reversed(series) ==
    [i \in 1..Len(series) |-> series[Len(series) - i + 1]]

\* The last one is given latest bar first
HigherInputs ==
    { Series(n, lead, 30, << FlatShape(30) >>) :
        n \in HigherLens, lead \in {10, 52} }
    \cup { Reversed(Series(MacdRows, 10, 30, << FlatShape(30) >>)) }

\* The few inputs of the repeated calls
RepeatPrimary ==
    { Series(n, 52, 30, << FlatShape(30), FlatShape(t2) >>) :
        n \in {MacdSlow - 1, MacdRows}, t2 \in MidLevels }
RepeatHigher == { Series(MacdRows, lead, 30, << FlatShape(30) >>) : lead \in {10, 52} }

---------------------------------------------------------------------------
(* The initial states                                                      *)

\* settings.py lines 27-28 and 43: both features are on by default and the
\* multiplier of the envelope is 3.0.  ATR_FACTOR is a fraction num / den.
DefaultSettings ==
    [GEMINI_ANALYSIS_ENABLED |-> TRUE, ENABLE_NOTIFICATIONS |-> TRUE,
     ATR_FACTOR |-> [num |-> atr_factor, den |-> 1]]

\* The settings of a cycle: the two feature flags as the environment sets
\* them, the multiplier at its default
CycleSettings ==
    { [DefaultSettings EXCEPT !.GEMINI_ANALYSIS_ENABLED = g,
                              !.ENABLE_NOTIFICATIONS = n] :
        g \in BOOLEAN, n \in BOOLEAN }

InitService ==
    /\ primary = << >>
    /\ higher = << >>
    /\ out = None
    /\ prev = None
    /\ clock = 0
    /\ calls = 0

InitCycleState ==
    /\ engine = None
    /\ app = None
    /\ cycle = "idle"
    /\ tasks = << >>
    /\ sent = << >>

Init == InitService /\ InitCycleState /\ settings = DefaultSettings

Symbol == "BTC/USDT"

\* One call of analyze_market (try_block, then call_outcome), which takes d
\* ticks of the wall clock
AnalyzeMarket(P, H, limit) ==
    /\ calls < limit
    /\ \E h \in H : \E higher_locals \in { higher_step(h) } : \E p \in P :
         \E locals \in { try_block_from(Symbol, p, higher_locals) } :
            \E d \in 1..MaxCallTicks :
              /\ primary' = p
              /\ higher' = h
              /\ out' = Some(call_outcome(Symbol, p, locals, clock, clock + d))
              /\ clock' = clock + d
    /\ prev' = IF out = None THEN None
               ELSE Some([primary |-> primary, higher |-> higher,
                          out |-> Val(out)])
    /\ calls' = calls + 1
    /\ UNCHANGED << engine, app, cycle_vars >>

Next == AnalyzeMarket(PrimaryInputs, HigherInputs, 1)
Spec == Init /\ [][Next]_vars

NextRepeat == AnalyzeMarket(RepeatPrimary, RepeatHigher, MaxCalls)
SpecRepeat == Init /\ [][NextRepeat]_vars

\* A service built with another multiplier: ATR_FACTOR is read from the
\* environment (settings.py line 43) and may be any float
TunedFactors == { [num |-> atr_factor, den |-> 1], [num |-> 1, den |-> 4] }

\* The bars of series with every price multiplied by k
Scaled(series, k) ==
    [i \in 1..Len(series) |->
        [ts |-> series[i].ts, high |-> k * series[i].high,
         low |-> k * series[i].low, close |-> k * series[i].close]]

\* Prices that are multiples of 4, so that the bands of every multiplier of
\* TunedFactors are whole numbers
TunedPrimary ==
    { Scaled(Series(MacdRows, lead, 30, << FlatShape(30), t2 >>), 4) :
        lead \in {10, 52}, t2 \in Shapes }
TunedHigher ==
    { Scaled(Series(MacdRows, lead, 30, << FlatShape(30) >>), 4) :
        lead \in {10, 52} }

InitTuned ==
    /\ InitService
    /\ InitCycleState
    /\ settings \in { [DefaultSettings EXCEPT !.ATR_FACTOR = f] :
                        f \in TunedFactors }

NextTuned == AnalyzeMarket(TunedPrimary, TunedHigher, 1)
SpecTuned == InitTuned /\ [][NextTuned]_vars

---------------------------------------------------------------------------
(* The indicator engine on its own: _market_data_to_dataframe followed by  *)
(* _calculate_indicators, as analyze_market calls them on each series      *)
(* (lines 169-170 and 177-178)                                             *)

FlatShapes == { FlatShape(l) : l \in Levels }

\* Well-formed series: a flat start and three bars of any shape at the end
EngineSeries ==
    { Series(MacdRows, lead, 30, << s1, s2, s3 >>) :
        lead \in {10, 30, 52}, s1 \in FlatShapes, s2 \in Shapes, s3 \in Shapes }

\* The bars of series with the timestamps of bars i and i + 1 exchanged
SwapTimestamps(series, i) ==
    [j \in 1..Len(series) |->
        IF j = i THEN [series[j] EXCEPT !.ts = i + 1]
        ELSE IF j = i + 1 THEN [series[j] EXCEPT !.ts = i]
        ELSE series[j]]

\* Malformed series: bars out of order, and a bar whose close is above its
\* high or whose low is above its high
MalformedSeries ==
    { SwapTimestamps(Series(MacdRows, 10, 30, << FlatShape(30), FlatShape(52) >>),
                     MacdRows - 1),
      Series(MacdRows, 10, 30, << [high |-> 30, low |-> 30, close |-> 52] >>),
      Series(MacdRows, 52, 30, << [high |-> 10, low |-> 32, close |-> 30] >>) }

\* A series too short for the engine
ShortSeries == { Series(2, 10, 10, << FlatShape(10), FlatShape(10) >>) }

EngineInputs == EngineSeries \cup MalformedSeries \cup ShortSeries

\* One run of the engine on market_data: the frame, the exception the
\* computation raises if it raises one, the columns before lines 75-76 and
\* the columns after them
CalculateIndicators ==
    /\ engine = None
    /\ \E market_data \in EngineInputs :
         \E df \in { market_data_to_dataframe(market_data) } :
            engine' = Some(
               IF calculate_indicators_raises(df) # None
               THEN [market_data |-> market_data, df |-> df,
                     exc |-> calculate_indicators_raises(df),
                     raw |-> None, ind |-> None]
               ELSE [market_data |-> market_data, df |-> df, exc |-> None,
                     raw |-> Some(raw_indicators(df)),
                     ind |-> Some(calculate_indicators(df))])
    /\ UNCHANGED << app, service_vars, clock, cycle_vars >>

NextEngine == CalculateIndicators
SpecEngine == Init /\ [][NextEngine]_vars


---------------------------------------------------------------------------
(* One cycle of TradingUseCase.analyze_and_notify (use_cases.py)           *)

AI_CONFIDENCE_THRESHOLD == 6
MinPrimaryBars == 50
MinHigherBars == 20

\* The number of pairs of the cycle (a bound of the model)
MaxPairs == 2

\* The default list of settings.py, which names LINK/USDT twice
DefaultPairs ==
    << "BTC/USDT", "ETH/USDT", "SOL/USDT", "ADA/USDT", "LINK/USDT",
       "XRP/USDT", "DOGE/USDT", "AVAX/USDT", "DOT/USDT", "LINK/USDT",
       "SHIB/USDT", "TRX/USDT", "LTC/USDT", "BCH/USDT", "UNI/USDT",
       "ATOM/USDT", "NEAR/USDT", "INJ/USDT", "MANA/USDT", "SAND/USDT",
       "APE/USDT", "ETC/USDT", "XLM/USDT", "ALGO/USDT", "KAITO/USDT" >>

\* The distance between the two positions of LINK/USDT in the list
PairStride == 5

\* The cycle of the model runs MaxPairs pairs of the list, every fifth one,
\* in the order of the list: both entries of LINK/USDT are among them
TRADING_PAIRS == [i \in 1..MaxPairs |-> DefaultPairs[PairStride * i]]
Pairs == 1..Len(TRADING_PAIRS)

\* How the gather of the two fetches (line 129) ends: with the exception of
\* a fetch (exchanges.py lines 90-116 re-raise it), or with both series
GatherRaised ==
    [raised |-> TRUE, primary_market_data |-> << >>, higher_market_data |-> << >>]
GatherReturned(p, h) ==
    [raised |-> FALSE, primary_market_data |-> p, higher_market_data |-> h]

\* The answers of the exchange in the model: a series one bar short of the
\* minimum, a series that crosses up on its last bar, one that crosses down
CyclePrimary ==
    { Series(MinPrimaryBars - 1, 52, 30, << FlatShape(30), FlatShape(30) >>),
      Series(60, 52, 30, << FlatShape(30), FlatShape(52) >>),
      Series(60, 52, 30, << FlatShape(32), FlatShape(10) >>) }
CycleHigher ==
    { Series(n, 10, 30, << FlatShape(30) >>) :
        n \in {MinHigherBars - 1, MinHigherBars, MacdRows} }
    \cup { Series(MacdRows, 52, 30, << FlatShape(30) >>) }

\* How the gather of line 129 ends in the model: one of the fetches raises,
\* both return one of the series above, or one of them returns no bar at all
\* (line 101 of exchanges.py)
CycleGathers ==
    {GatherRaised}
    \cup { GatherReturned(p, h) : p \in CyclePrimary, h \in CycleHigher }
    \cup { GatherReturned(<< >>, Series(MacdRows, 10, 30, << FlatShape(30) >>)),
           GatherReturned(Series(60, 52, 30, << FlatShape(30), FlatShape(52) >>),
                          << >>) }

\* How the call of the model ends (gemini_service.py line 88) and what the
\* three searches of lines 90-92 find in the text of the response: the call
\* raises, or it answers and each field is found or not
AiCall(raised, insight, conclusion, confidence) ==
    [raised |-> raised, insight |-> insight, conclusion |-> conclusion,
     confidence |-> confidence]

AiCalls ==
    { AiCall(TRUE, None, None, None),
      AiCall(FALSE, None, Some("BUY"), Some(AI_CONFIDENCE_THRESHOLD)),
      AiCall(FALSE, Some("text"), None, Some(AI_CONFIDENCE_THRESHOLD)),
      AiCall(FALSE, Some("text"), Some("SELL"), None),
      AiCall(FALSE, Some("text"), Some("BUY"), Some(AI_CONFIDENCE_THRESHOLD - 1)),
      AiCall(FALSE, Some("text"), Some("BUY"), Some(AI_CONFIDENCE_THRESHOLD)),
      AiCall(FALSE, Some("text"), Some("SELL"), Some(AI_CONFIDENCE_THRESHOLD)),
      AiCall(FALSE, Some("text"), Some("NEUTRAL"), Some(AI_CONFIDENCE_THRESHOLD)) }

\* What get_confluence_insight ends with: an exception or a dictionary
Answer(insight, conclusion, confidence) ==
    [exc |-> None,
     value |-> [insight |-> insight, conclusion |-> conclusion,
                confidence |-> confidence]]

\* get_confluence_insight without its try and without the test of line 94:
\* the exception of the call escapes and a field that is not found takes
\* a default
get_confluence_insight_unguarded(call) ==
    IF call.raised
    THEN [exc |-> Some("AIServiceError"),
          value |-> [insight |-> "", conclusion |-> "NEUTRAL", confidence |-> 0]]
    ELSE Answer(IF IsSome(call.insight) THEN Val(call.insight) ELSE "",
                IF IsSome(call.conclusion) THEN Val(call.conclusion)
                ELSE "NEUTRAL",
                IF IsSome(call.confidence) THEN Val(call.confidence) ELSE 0)

\* gemini_service.py lines 86-107
get_confluence_insight(call) ==
    IF call.raised
    THEN Answer("Error saat menghubungi layanan AI.", "NEUTRAL", 0)
    ELSE IF ~IsSome(call.insight) \/ ~IsSome(call.conclusion)
            \/ ~IsSome(call.confidence)
    THEN Answer("Gagal mem-parsing respons AI.", "NEUTRAL", 0)
    ELSE Answer(Val(call.insight), Val(call.conclusion), Val(call.confidence))

\* The guard of line 131 testing the primary series for emptiness only
run_technical_analysis_primary_unmeasured(symbol, gathered, start_time, now) ==
    IF gathered.raised THEN [analysed |-> FALSE, returned |-> None]
    ELSE LET primary_market_data == gathered.primary_market_data
             higher_market_data == gathered.higher_market_data
         IN IF Len(primary_market_data) = 0
            THEN [analysed |-> FALSE, returned |-> None]
            ELSE IF Len(higher_market_data) = 0
                    \/ Len(higher_market_data) < MinHigherBars
            THEN [analysed |-> FALSE, returned |-> None]
            ELSE [analysed |-> TRUE,
                  returned |-> analyze_market(symbol, primary_market_data,
                                   higher_market_data, start_time, now).returned]

\* lines 117-145: an exception of a fetch, a short series, or a None of
\* analyze_market all end in None; analysed tells whether line 138 was
\* reached, that is whether analyze_market was invoked
run_technical_analysis(symbol, gathered, start_time, now) ==
    IF gathered.raised THEN [analysed |-> FALSE, returned |-> None]
    ELSE LET primary_market_data == gathered.primary_market_data
             higher_market_data == gathered.higher_market_data
         IN IF Len(primary_market_data) = 0
               \/ Len(primary_market_data) < MinPrimaryBars
            THEN [analysed |-> FALSE, returned |-> None]
            ELSE IF Len(higher_market_data) = 0
                    \/ Len(higher_market_data) < MinHigherBars
            THEN [analysed |-> FALSE, returned |-> None]
            ELSE [analysed |-> TRUE,
                  returned |-> analyze_market(symbol, primary_market_data,
                                   higher_market_data, start_time, now).returned]

\* lines 53-76
is_signal_ai_validated(signal, ai_insight) ==
    IF ai_insight.conclusion = "NEUTRAL" THEN FALSE
    ELSE /\ signal.signal_type = ai_insight.conclusion
         /\ ai_insight.confidence >= AI_CONFIDENCE_THRESHOLD

\* The enrichment building a new signal that loses the optional levels
enrich_signal_drops_levels(result, ai_insight) ==
    [result EXCEPT !.signal =
        Some([Val(result.signal) EXCEPT
                !.ai_insight = Some(ai_insight),
                !.ai_confidence_score = Some(ai_insight.confidence),
                !.higher_tf_trend = Some(result.higher_tf_trend),
                !.support_level = None,
                !.resistance_level = None])]

\* lines 103-105: the signal is enriched in place
enrich_signal(result, ai_insight) ==
    [result EXCEPT !.signal =
        Some([Val(result.signal) EXCEPT
                !.ai_insight = Some(ai_insight),
                !.ai_confidence_score = Some(ai_insight.confidence),
                !.higher_tf_trend = Some(result.higher_tf_trend)])]

NewTask ==
    [pc |-> "fetching", gathered |-> None, analysed |-> FALSE,
     analysis_result |-> None,
     ai_call |-> None, ai_insight |-> None, exc |-> None]

\* A task that raises e takes its siblings down with it
task_raises_cancels_siblings(ts, i, e) ==
    [j \in DOMAIN ts |->
        IF j = i THEN [ts[j] EXCEPT !.pc = "done", !.exc = Some(e)]
        ELSE IF ts[j].pc # "done"
             THEN [ts[j] EXCEPT !.pc = "done", !.exc = Some("CancelledError")]
             ELSE ts[j]]

\* line 157, gather(*tasks, return_exceptions=True): the exception of task i
\* becomes its result and no other task is touched
task_raises(ts, i, e) ==
    [ts EXCEPT ![i].pc = "done", ![i].exc = Some(e)]

\* lines 153-157: one task per pair is created and gathered
AnalyzeAndNotify ==
    /\ cycle = "idle"
    /\ cycle' = "gather"
    /\ tasks' = [i \in Pairs |-> NewTask]
    /\ UNCHANGED << engine, app, service_vars, clock, settings, sent >>

\* lines 82-91 and 117-145: the gather of the two fetches ends, the analysis
\* runs and the task either returns or goes on to ask the AI service.  The
\* analysis does not await: within a cycle it starts and ends on one reading
\* of the wall clock.
RunTechnicalAnalysis(i) ==
    /\ cycle = "gather"
    /\ tasks[i].pc = "fetching"
    /\ \E gathered \in CycleGathers :
         \E ran \in { run_technical_analysis(TRADING_PAIRS[i], gathered,
                                             clock, clock) } :
            LET result == ran.returned
                go_on == /\ result # None
                         /\ Val(result).signal # None
                         /\ settings.GEMINI_ANALYSIS_ENABLED
            IN tasks' = [tasks EXCEPT
                           ![i].gathered = Some(gathered),
                           ![i].analysed = ran.analysed,
                           ![i].analysis_result = result,
                           ![i].pc = IF go_on THEN "insight" ELSE "done"]
    /\ UNCHANGED << engine, app, service_vars, clock, settings, cycle, sent >>

\* lines 93-113: the awaited service raises before its try (line 85 of
\* gemini_service.py, or another implementation of the interface), or it
\* makes its call and answers; a validated signal is enriched and, when
\* notifications are on, sent
GetConfluenceInsight(i) ==
    /\ cycle = "gather"
    /\ tasks[i].pc = "insight"
    /\ \/ tasks' = task_raises(tasks, i, "AIServiceError")
       \/ \E call \in AiCalls :
            LET result == Val(tasks[i].analysis_result)
                answer == get_confluence_insight(call)
                ai_insight == answer.value
                valid == is_signal_ai_validated(Val(result.signal),
                                                ai_insight)
                notify == valid /\ settings.ENABLE_NOTIFICATIONS
            IN IF answer.exc # None
               THEN tasks' = task_raises([tasks EXCEPT ![i].ai_call = Some(call)],
                                         i, Val(answer.exc))
               ELSE tasks' = [tasks EXCEPT
                    ![i].ai_call = Some(call),
                    ![i].ai_insight = Some(ai_insight),
                    ![i].analysis_result =
                        IF valid THEN Some(enrich_signal(result, ai_insight))
                        ELSE tasks[i].analysis_result,
                    ![i].pc = IF notify THEN "notifying" ELSE "done"]
    /\ UNCHANGED << engine, app, service_vars, clock, settings, cycle, sent >>

\* line 113: the signal is handed to the notification service
SendSignalNotification(i) ==
    /\ cycle = "gather"
    /\ tasks[i].pc = "notifying"
    /\ sent' = Append(sent, [kind |-> "signal", pair |-> i,
                             signal |-> Val(tasks[i].analysis_result).signal])
    /\ tasks' = [tasks EXCEPT ![i].pc = "done"]
    /\ UNCHANGED << engine, app, service_vars, clock, settings, cycle >>

\* line 157: gather returns once every task has ended
GatherReturns ==
    /\ cycle = "gather"
    /\ \A i \in Pairs : tasks[i].pc = "done"
    /\ cycle' = "report"
    /\ UNCHANGED << engine, app, service_vars, clock, settings, tasks, sent >>

\* The error notifications of lines 159-164, in the order of TRADING_PAIRS
RECURSIVE error_notifications(_, _)
error_notifications(ts, acc) ==
    IF Len(acc) >= Len(ts) THEN acc
    ELSE error_notifications(ts,
            Append(acc, IF ts[Len(acc) + 1].exc # None
                        THEN << [kind |-> "error", pair |-> Len(acc) + 1,
                                 message |-> Val(ts[Len(acc) + 1].exc)] >>
                        ELSE << >>))

RECURSIVE Flatten(_)
Flatten(ss) == IF Len(ss) = 0 THEN << >> ELSE ss[1] \o Flatten(Tail(ss))

\* lines 159-166: every exception among the results is logged and, when
\* notifications are on, reported
ReportErrors ==
    /\ cycle = "report"
    /\ cycle' = "done"
    /\ sent' = IF settings.ENABLE_NOTIFICATIONS
               THEN sent \o Flatten(error_notifications(tasks, << >>))
               ELSE sent
    /\ UNCHANGED << engine, app, service_vars, clock, settings, tasks >>

InitCycle ==
    /\ InitService
    /\ InitCycleState
    /\ settings \in CycleSettings

NextCycle ==
    \/ AnalyzeAndNotify
    \/ \E i \in Pairs : RunTechnicalAnalysis(i)
    \/ \E i \in Pairs : GetConfluenceInsight(i)
    \/ \E i \in Pairs : SendSignalNotification(i)
    \/ GatherReturns
    \/ ReportErrors

SpecCycle == InitCycle /\ [][NextCycle]_vars

---------------------------------------------------------------------------
(* One run of main (main.py lines 34-104) around the cycle                 *)

\* The locals of main and the exchange adapter before line 38: exchange is
\* KuCoinExchange.exchange (None, or the state of the ccxt connection),
\* close_raised tells whether a close of the connection raised, exc is the
\* exception main is handling, exit_code the argument of sys.exit
NewApp ==
    [pc |-> "main", trading_use_case |-> FALSE, exchange |-> None,
     close_raised |-> FALSE, initialized |-> FALSE, shutdown |-> FALSE,
     exc |-> None, exit_code |-> None]

\* exchanges.py lines 69-76: an open connection is closed, and an exception
\* of the close is logged and dropped
exchange_close(a, close_ok) ==
    IF a.exchange = None THEN a
    ELSE IF close_ok THEN [a EXCEPT !.exchange = Some("closed")]
    ELSE [a EXCEPT !.close_raised = TRUE]

\* exchanges.py lines 25-67.  stage is where the initialization ends: "ok",
\* "constructor" (line 49 raises), "load_markets" (line 50 raises and the
\* handler closes the connection and forgets it) or "close" (the close of
\* the handler raises in its turn, and the connection is kept)
exchange_initialize(a, stage, e) ==
    IF stage = "ok" THEN [a EXCEPT !.exchange = Some("open")]
    ELSE IF stage = "constructor" THEN [a EXCEPT !.exc = Some(e)]
    ELSE IF stage = "load_markets"
    THEN [a EXCEPT !.exchange = None, !.exc = Some(e)]
    ELSE [a EXCEPT !.exchange = Some("open"), !.close_raised = TRUE,
                   !.exc = Some("CloseError")]

\* The shutdown written as the last statement of the try block
finally_block_on_success(a, close_ok) ==
    IF a.trading_use_case /\ a.exc = None
    THEN [exchange_close(a, close_ok) EXCEPT !.shutdown = TRUE, !.pc = "exit"]
    ELSE [a EXCEPT !.pc = "exit"]

\* main.py lines 100-104 with use_cases.py lines 47-51
finally_block(a, close_ok) ==
    IF a.trading_use_case
    THEN [exchange_close(a, close_ok) EXCEPT !.shutdown = TRUE, !.pc = "exit"]
    ELSE [a EXCEPT !.pc = "exit"]

\* lines 38-74: the settings are loaded and the services and the use case
\* are built, or one of the constructors raises (gemini_service.py line 31,
\* telegram_service.py line 37) and the use case is never built
Construct ==
    /\ app # None
    /\ Val(app).pc = "main"
    /\ \/ app' = Some([Val(app) EXCEPT !.trading_use_case = TRUE,
                                        !.pc = "initialize_services"])
       \/ \E e \in {"ValueError", "TelegramError"} :
            app' = Some([Val(app) EXCEPT !.exc = Some(e), !.pc = "except"])
    /\ UNCHANGED << engine, service_vars, clock, cycle_vars >>

\* line 77: initialize_services returns and line 78 is reached, or the
\* exception of KuCoinExchange.initialize leaves the try block
InitializeServices ==
    /\ app # None
    /\ Val(app).pc = "initialize_services"
    /\ \E stage \in {"ok", "constructor", "load_markets", "close"} :
       \E e \in {"ExchangeError", "ValueError"} :
          LET a == exchange_initialize(Val(app), stage, e)
          IN IF a.exc = None
             THEN /\ app' = Some([a EXCEPT !.initialized = TRUE,
                                           !.pc = "analyze_and_notify"])
                  /\ cycle' = "idle"
             ELSE /\ app' = Some([a EXCEPT !.pc = "except"])
                  /\ UNCHANGED cycle
    /\ UNCHANGED << engine, service_vars, clock, settings, tasks, sent >>

\* lines 78-80: analyze_and_notify returns
AnalyzeAndNotifyReturns ==
    /\ app # None
    /\ Val(app).pc = "analyze_and_notify"
    /\ cycle = "done"
    /\ app' = Some([Val(app) EXCEPT !.pc = "finally"])
    /\ UNCHANGED << engine, service_vars, clock, cycle_vars >>

\* line 78: an exception leaves analyze_and_notify.  Nothing in lines
\* 159-166 of use_cases.py is inside a try, so an exception of the report
\* (of the notification service behind the interface, or of the logger)
\* ends the cycle there
AnalyzeAndNotifyRaises ==
    /\ app # None
    /\ Val(app).pc = "analyze_and_notify"
    /\ cycle = "report"
    /\ cycle' = "raised"
    /\ \E e \in {"ValueError", "NotificationError"} :
          app' = Some([Val(app) EXCEPT !.exc = Some(e), !.pc = "except"])
    /\ UNCHANGED << engine, service_vars, clock, settings, tasks, sent >>

\* lines 82-98: a ValueError exits at once; any other exception is reported
\* through an emergency notification when notifications are on, a failure
\* of which is logged and dropped (delivered tells whether it was handed
\* over), and then main exits.  sys.exit raises SystemExit, which passes
\* through the finally block.
HandleException ==
    /\ app # None
    /\ Val(app).pc = "except"
    /\ app' = Some([Val(app) EXCEPT !.exit_code = Some(1), !.pc = "finally"])
    /\ \E delivered \in BOOLEAN :
          sent' = IF /\ Val(app).exc # Some("ValueError")
                     /\ settings.ENABLE_NOTIFICATIONS
                     /\ delivered
                  THEN Append(sent, [kind |-> "critical", pair |-> 0,
                                     message |-> Val(Val(app).exc)])
                  ELSE sent
    /\ UNCHANGED << engine, service_vars, clock, settings, cycle, tasks >>

\* lines 100-104: the finally block
Finally ==
    /\ app # None
    /\ Val(app).pc = "finally"
    /\ \E close_ok \in BOOLEAN :
          app' = Some(finally_block(Val(app), close_ok))
    /\ UNCHANGED << engine, service_vars, clock, cycle_vars >>

\* Before main runs nothing of the cycle has been called
InitMain ==
    /\ InitService
    /\ engine = None
    /\ app = Some(NewApp)
    /\ cycle = "uncalled"
    /\ tasks = << >>
    /\ sent = << >>
    /\ settings \in CycleSettings

NextMain ==
    \/ Construct
    \/ InitializeServices
    \/ NextCycle
    \/ AnalyzeAndNotifyReturns
    \/ AnalyzeAndNotifyRaises
    \/ HandleException
    \/ Finally

\* The event loop runs main and every task of the cycle for as long as one
\* of them can take a step, and every awaited call returns or raises (the
\* exchange client has a timeout of 30 s, exchanges.py line 30)
SpecMain == InitMain /\ [][NextMain]_vars /\ WF_vars(NextMain)

---------------------------------------------------------------------------
(* The last call, as the properties below read it                          *)

Called == out # None
LastOut == Val(out)
Locals == LastOut.locals
Returned == Called /\ LastOut.returned # None
Result == Val(LastOut.returned)
HasSignal == Returned /\ Result.signal # None
Signal == Val(Result.signal)

\* The primary frame of the last call, ordered by timestamp, and its rows
Frame == Locals.df_primary
LastRow == Len(Frame.rows)
LatestClose == Frame.rows[LastRow].close
DirectionAt(i) == Frame.st[i].direction

\* The lookback below which _calculate_indicators cannot run
LargestLookback ==
    SetMax({atr_period, RsiLength, MacdSlow, 2 * pivot_period + 1})

---------------------------------------------------------------------------
(* C1 *)

BuyCrossover ==
    /\ DirectionAt(LastRow - 1) = -1 /\ DirectionAt(LastRow) = 1
    /\ Result.higher_tf_trend = "BULLISH"

SellCrossover ==
    /\ DirectionAt(LastRow - 1) = 1 /\ DirectionAt(LastRow) = -1
    /\ Result.higher_tf_trend = "BEARISH"

\* C1: a returned result carries a signal exactly when the envelope
\* direction changed between the last two primary bars and the
\* higher-timeframe trend matches the change: BUY for -1 then +1 under a
\* BULLISH trend, SELL for +1 then -1 under a BEARISH trend.  In every other
\* case the signal is absent (None), never a HOLD object.
C1_SignalIffGatedCrossover ==
    Returned =>
        /\ (Result.signal # None) <=> (BuyCrossover \/ SellCrossover)
        /\ BuyCrossover => (Result.signal # None /\ Signal.signal_type = "BUY")
        /\ SellCrossover => (Result.signal # None /\ Signal.signal_type = "SELL")

\* A crossover the gate lets through, and so a BUY
C1_Witness ==
    /\ HasSignal
    /\ Signal.signal_type = "BUY"
    /\ DirectionAt(LastRow - 1) = -1 /\ DirectionAt(LastRow) = 1

---------------------------------------------------------------------------
(* C2 *)

\* C2: in every returned result, with or without a signal, the snapshot's
\* support level, if present, is strictly below the latest primary close and
\* its resistance level, if present, strictly above it.
C2_SupportBelowCloseBelowResistance ==
    Returned =>
        /\ Result.indicator_data.support_level # None
              => Val(Result.indicator_data.support_level) < LatestClose
        /\ Result.indicator_data.resistance_level # None
              => Val(Result.indicator_data.resistance_level) > LatestClose

\* Both levels present in a result without a signal
C2_Witness ==
    /\ Returned
    /\ Result.signal = None
    /\ Result.indicator_data.support_level # None
    /\ Result.indicator_data.resistance_level # None

---------------------------------------------------------------------------
(* C3 *)

RawTarget(sig) ==
    IF sig.signal_type = "BUY"
    THEN sig.price + 2 * Abs(sig.price - sig.supertrend_value)
    ELSE sig.price - 2 * Abs(sig.price - sig.supertrend_value)

\* C3: a BUY's take-profit never exceeds close + 2 * |close - envelope| and
\* equals the resistance level when one exists below that target; a SELL's
\* take-profit is never below close - 2 * |close - envelope| and equals the
\* support level when one exists above that target.
C3_TakeProfitCappedByLevel ==
    HasSignal =>
        IF Signal.signal_type = "BUY"
        THEN /\ Signal.take_profit <= RawTarget(Signal)
             /\ (Signal.resistance_level # None
                 /\ Val(Signal.resistance_level) < RawTarget(Signal))
                   => Signal.take_profit = Val(Signal.resistance_level)
        ELSE /\ Signal.take_profit >= RawTarget(Signal)
             /\ (Signal.support_level # None
                 /\ Val(Signal.support_level) > RawTarget(Signal))
                   => Signal.take_profit = Val(Signal.support_level)

\* A BUY whose resistance is below the raw target
C3_Witness ==
    /\ HasSignal
    /\ Signal.signal_type = "BUY"
    /\ Signal.resistance_level # None
    /\ Val(Signal.resistance_level) < RawTarget(Signal)

---------------------------------------------------------------------------
(* C4 *)

\* C4: every signal's entry price and trigger price are the close of the
\* latest primary bar, and its stop-loss is the envelope value of that bar.
C4_EntryAndStopFromTriggerBar ==
    HasSignal =>
        /\ Signal.entry_price = LatestClose
        /\ Signal.price = LatestClose
        /\ Signal.stop_loss = Frame.st[LastRow].supertrend

\* A signal whose trigger bar and the bar before it have different envelope
\* values
C4_Witness ==
    /\ HasSignal
    /\ Frame.st[LastRow].supertrend # Frame.st[LastRow - 1].supertrend
    /\ Frame.st[LastRow].supertrend # LatestClose

---------------------------------------------------------------------------
(* C5 *)

\* The rows of the most recent 100 bars (all rows if fewer)
WindowRows == { i \in 1..LastRow : i > LastRow - 100 }
WindowHighs ==
    { Val(Frame.pivot_high[i]) : i \in { j \in WindowRows : Frame.pivot_high[j] # None } }
WindowLows ==
    { Val(Frame.pivot_low[i]) : i \in { j \in WindowRows : Frame.pivot_low[j] # None } }

\* C5: over the most recent 100 primary bars, resistance is the smallest
\* pivot-high above the latest close and support the largest pivot-low below
\* it; each is None exactly when the window holds no such value.
C5_NearestPivotLevels ==
    Returned =>
        LET r == Locals.sr_levels.resistance
            s == Locals.sr_levels.support
        IN /\ (r = None) <=> ~ \E v \in WindowHighs : v > LatestClose
           /\ r # None => /\ Val(r) \in WindowHighs
                          /\ Val(r) > LatestClose
                          /\ \A v \in WindowHighs :
                                v > LatestClose => Val(r) <= v
           /\ (s = None) <=> ~ \E v \in WindowLows : v < LatestClose
           /\ s # None => /\ Val(s) \in WindowLows
                          /\ Val(s) < LatestClose
                          /\ \A v \in WindowLows :
                                v < LatestClose => Val(s) >= v

\* A frame longer than the window, with a pivot-high above the close that
\* only rows before the window hold: no resistance
C5_Witness ==
    /\ Returned
    /\ LastRow > 100
    /\ Locals.sr_levels.resistance = None
    /\ \E i \in 1..LastRow : /\ Frame.pivot_high[i] # None
                             /\ Val(Frame.pivot_high[i]) > LatestClose


---------------------------------------------------------------------------
(* C6 *)

\* The series the Indicator Engine failed on in the last call, if it failed
FailedSeries == IF Locals.step = "higher" THEN higher ELSE primary

\* C6: for every series shorter than the largest configured lookback (a
\* series of 2 bars among them) the Indicator Engine fails with
\* InsufficientDataError, not with another error.
C6_InsufficientDataError ==
    (Called /\ Locals.exc # None /\ Len(FailedSeries) < LargestLookback)
        => Locals.exc = Some("InsufficientDataError")

---------------------------------------------------------------------------
(* C7 *)

\* The inputs on which one of the two indicator computations raises
IndicatorsRaise ==
    \/ Len(higher) < LargestLookback
    \/ Len(primary) < LargestLookback

---------------------------------------------------------------------------
(* C10 *)

\* Direction d on every primary row from the first row that has bands (row
\* 3: pandas-ta gives rows 1 and 2 the direction +1) up to row hi
BearishThrough(hi) == \A i \in 3..hi : DirectionAt(i) = -1

\* C10 as stated: 60 primary bars, direction -1 up to bar 58 and +1 on bars
\* 59 and 60, higher timeframe BULLISH: the result holds a BUY whose entry is
\* the close of bar 59.
C10_BuyAtBar59 ==
    (/\ Returned
     /\ LastRow = 60
     /\ BearishThrough(58)
     /\ DirectionAt(59) = 1 /\ DirectionAt(60) = 1
     /\ Result.higher_tf_trend = "BULLISH")
        => /\ Result.signal # None
           /\ Signal.signal_type = "BUY"
           /\ Signal.entry_price = Frame.rows[59].close

\* C10 amended: 60 primary bars, direction -1 up to bar 59 and +1 on bar 60,
\* higher timeframe BULLISH: the result holds a BUY whose entry is the close
\* of bar 60.  With the change one bar earlier (+1 on bars 59 and 60) the
\* result holds no signal.
C10_BuyAtLastBar ==
    (Returned /\ LastRow = 60 /\ Result.higher_tf_trend = "BULLISH") =>
        /\ (BearishThrough(59) /\ DirectionAt(60) = 1)
              => /\ Result.signal # None
                 /\ Signal.signal_type = "BUY"
                 /\ Signal.entry_price = Frame.rows[60].close
        /\ (BearishThrough(58) /\ DirectionAt(59) = 1 /\ DirectionAt(60) = 1)
              => Result.signal = None

\* The amended scenario: a BUY on bar 60 after 57 bearish bars
C10_Witness ==
    /\ HasSignal
    /\ LastRow = 60
    /\ BearishThrough(59)
    /\ DirectionAt(60) = 1
    /\ Result.higher_tf_trend = "BULLISH"

---------------------------------------------------------------------------
(* C9 *)

\* The last two calls had the same arguments
SameArguments ==
    /\ prev # None
    /\ Val(prev).primary = primary
    /\ Val(prev).higher = higher

\* An AnalysisResult without the two fields read from the wall clock
WithoutClock(r) == [r EXCEPT !.timestamp = 0, !.analysis_duration_ms = 0]

---------------------------------------------------------------------------
(* C8 *)

\* What was handed to the notification service for the pair at position i
SignalNotificationsOf(i) ==
    SelectSeq(sent, LAMBDA m : m.kind = "signal" /\ m.pair = i)
ErrorNotificationsOf(i) ==
    SelectSeq(sent, LAMBDA m : m.kind = "error" /\ m.pair = i)

\* Task i got both series and both pass the length checks of the use case
Analysable(i) ==
    LET g == Val(tasks[i].gathered)
    IN /\ ~g.raised
       /\ Len(g.primary_market_data) >= MinPrimaryBars
       /\ Len(g.higher_market_data) >= MinHigherBars

\* The outcome of task i read from what task i itself was given: the series
\* of its own fetches and the answer to its own AI request
OwnOutcome(i) ==
    LET t == tasks[i]
        g == Val(t.gathered)
        r == Val(t.analysis_result)
        asked == /\ t.analysis_result # None
                 /\ r.signal # None
                 /\ settings.GEMINI_ANALYSIS_ENABLED
        validated == /\ asked
                     /\ t.ai_insight # None
                     /\ Val(t.ai_insight).conclusion = Val(r.signal).signal_type
                     /\ Val(t.ai_insight).confidence >= AI_CONFIDENCE_THRESHOLD
    IN /\ t.gathered # None
       /\ ~Analysable(i) => t.analysis_result = None
       /\ t.analysis_result # None =>
             /\ r.symbol = TRADING_PAIRS[i]
             /\ r.market_data =
                   g.primary_market_data[Len(g.primary_market_data)]
       /\ t.exc \in {None, Some("AIServiceError")}
       /\ asked => ((t.exc # None) # (t.ai_insight # None))
       /\ ~asked => (t.exc = None /\ t.ai_insight = None)
       /\ SignalNotificationsOf(i) =
             IF validated /\ settings.ENABLE_NOTIFICATIONS
             THEN << [kind |-> "signal", pair |-> i, signal |-> r.signal] >>
             ELSE << >>
       /\ validated => /\ Val(r.signal).ai_insight = t.ai_insight
                       /\ Val(r.signal).price =
                             g.primary_market_data[Len(g.primary_market_data)].close
       /\ cycle = "done" =>
             ErrorNotificationsOf(i) =
                IF t.exc # None /\ settings.ENABLE_NOTIFICATIONS
                THEN << [kind |-> "error", pair |-> i, message |-> Val(t.exc)] >>
                ELSE << >>

\* C8: in a cycle, whatever the order in which the per-pair tasks take their
\* steps and whichever of them fail (a fetch raises, a series is too short,
\* the task raises), every task runs to its end before the gather returns,
\* and what a task ends with (its exception if it raised one, the signal
\* notification sent for it, the error notification sent for it) is
\* decided by its own fetches and its own AI answer alone.
C8_TaskIsolation ==
    /\ cycle \in {"report", "done"} => \A i \in Pairs : tasks[i].pc = "done"
    /\ cycle # "idle" =>
          \A i \in Pairs : tasks[i].pc = "done" => OwnOutcome(i)

\* A cycle has ended in which the first task raised, and the second one,
\* whose fetches and analysis succeeded, was notified
C8_Witness ==
    /\ cycle = "done"
    /\ tasks[1].exc # None
    /\ ErrorNotificationsOf(1) # << >>
    /\ tasks[2].exc = None
    /\ SignalNotificationsOf(2) # << >>

---------------------------------------------------------------------------
(* Properties of the indicator engine                                      *)

\* The engine ran and returned its frame
EngineRan == IsSome(engine) /\ Val(engine).exc = None

\* The columns before and after the fill of lines 75-76
Raw == Val(Val(engine).raw)
Filled == Val(Val(engine).ind)

FlipUp(st, i) == st[i - 1].direction = -1 /\ st[i].direction = 1
FlipDown(st, i) == st[i - 1].direction = 1 /\ st[i].direction = -1

\* C11: the direction of every bar is +1 or -1; it goes from -1 to +1 only
\* on a bar whose close is above the upper band that was active on the
\* previous bar, and from +1 to -1 only on a bar whose close is below the
\* lower band that was active on the previous bar, so the bands moving
\* without such a crossing never change it.
C11_DirectionFlipsOnCrossover ==
    EngineRan =>
        /\ \A i \in 1..Len(Raw.st) : Raw.st[i].direction \in {1, -1}
        /\ \A i \in 2..Len(Raw.st) :
              /\ FlipUp(Raw.st, i) =>
                    Raw.rows[i].close > Raw.st[i - 1].supertrend
              /\ FlipDown(Raw.st, i) =>
                    Raw.rows[i].close < Raw.st[i - 1].supertrend

\* A series whose direction flips down and later flips up again
C11_Witness ==
    /\ EngineRan
    /\ \E i \in 2..Len(Raw.st) : \E j \in 2..Len(Raw.st) :
          i < j /\ FlipDown(Raw.st, i) /\ FlipUp(Raw.st, j)

\* C12: between two consecutive bars without a flip the bullish envelope
\* value (the lower band) does not decrease and the bearish envelope value
\* (the upper band) does not increase.  Row 1 holds the placeholder 0 and
\* no band, so the comparison starts with rows 2 and 3.
C12_BandsOnlyRatchet ==
    EngineRan =>
        \A i \in 3..Len(Raw.st) :
            Raw.st[i].direction = Raw.st[i - 1].direction =>
                IF Raw.st[i].direction = 1
                THEN Raw.st[i].supertrend >= Raw.st[i - 1].supertrend
                ELSE Raw.st[i].supertrend <= Raw.st[i - 1].supertrend

\* The negative average of rsi at row i is zero: no close of rows 2..i is
\* below the close before it
AverageLossZero(df, i) == RmaLoop(df, << << 0, 0 >> >>)[i][2] = 0

\* A series whose closes are not all the same
NonDegenerate(df) == \E i \in 1..Len(df) : df[i].close # df[1].close

\* C13: on a non-degenerate series the RSI of every bar past the first 14
\* is a value in 0..100, and it is 100 on every bar whose average loss is
\* zero.
C13_RsiBoundedAnd100WithoutLoss ==
    EngineRan /\ NonDegenerate(Raw.rows) =>
        \A i \in (RsiLength + 1)..Len(Raw.rsi) :
            /\ IsSome(Raw.rsi[i])
            /\ Val(Raw.rsi[i]) >= 0 /\ Val(Raw.rsi[i]) <= 100
            /\ AverageLossZero(Raw.rows, i) => Val(Raw.rsi[i]) = 100

\* The window of pivot radius pivot_period around row i lies inside df
WindowInside(df, i) == i - pivot_period >= 1 /\ i + pivot_period <= Len(df)

Window(i) == (i - pivot_period)..(i + pivot_period)

\* C14: before the fill, the pivot high (pivot low) of a bar whose window
\* i - r .. i + r lies inside the series is the greatest high (least low)
\* of the window, and a bar within r positions of either end has no pivot.
C14_PivotIsWindowExtremum ==
    EngineRan =>
        \A i \in 1..Len(Raw.rows) :
            IF WindowInside(Raw.rows, i)
            THEN /\ IsSome(Raw.pivot_high[i]) /\ IsSome(Raw.pivot_low[i])
                 /\ \A j \in Window(i) :
                       /\ Raw.rows[j].high <= Val(Raw.pivot_high[i])
                       /\ Raw.rows[j].low >= Val(Raw.pivot_low[i])
                 /\ \E j \in Window(i) :
                       Raw.rows[j].high = Val(Raw.pivot_high[i])
                 /\ \E j \in Window(i) :
                       Raw.rows[j].low = Val(Raw.pivot_low[i])
            ELSE Raw.pivot_high[i] = None /\ Raw.pivot_low[i] = None

\* A bar whose pivot high comes from a later bar of its window and whose
\* pivot low comes from another bar too, in a series with bars at both ends
\* that have no pivot
C14_Witness ==
    /\ EngineRan
    /\ Raw.pivot_high[1] = None /\ Raw.pivot_high[Len(Raw.rows)] = None
    /\ \E i \in 1..Len(Raw.rows) :
          /\ WindowInside(Raw.rows, i)
          /\ Val(Raw.pivot_high[i]) > Raw.rows[i].high
          /\ Val(Raw.pivot_low[i]) < Raw.rows[i].low
          /\ \A j \in (i - pivot_period)..i :
                Raw.rows[j].high < Val(Raw.pivot_high[i])

\* The rows of column col that have a value
Defined(col) == { i \in 1..Len(col) : IsSome(col[i]) }

\* Column after is column before with its gaps filled: a row that had a
\* value keeps it, a row above the first value holds the first value, a row
\* below the last value holds the last value, and no row is left empty
FilledFrom(before, after) ==
    /\ Len(after) = Len(before)
    /\ Defined(before) # {} =>
          \A i \in 1..Len(before) :
              /\ IsSome(after[i])
              /\ i \in Defined(before) => after[i] = before[i]
              /\ i < SetMin(Defined(before)) =>
                    after[i] = before[SetMin(Defined(before))]
              /\ i > SetMax(Defined(before)) =>
                    after[i] = before[SetMax(Defined(before))]

\* C15: after _calculate_indicators every indicator field that has a value
\* on some bar has one on every bar: the bars before its first value hold
\* the first value, the bars after its last value hold the last value, and
\* the values it had are unchanged.
C15_GapsFilledFromNearestValue ==
    EngineRan =>
        /\ FilledFrom(Raw.rsi, Filled.rsi)
        /\ FilledFrom(Raw.macd_line, Filled.macd_line)
        /\ FilledFrom(Raw.macd_signal, Filled.macd_signal)
        /\ FilledFrom(Raw.pivot_high, Filled.pivot_high)
        /\ FilledFrom(Raw.pivot_low, Filled.pivot_low)
        /\ Filled.st = Raw.st

\* A series whose RSI starts later than its warm-up (a flat start) and
\* whose pivots have gaps at both ends holding different values
C15_Witness ==
    /\ EngineRan
    /\ Defined(Raw.rsi) # {} /\ SetMin(Defined(Raw.rsi)) > RsiLength + 1
    /\ Raw.pivot_high[1] = None /\ Raw.pivot_high[Len(Raw.pivot_high)] = None
    /\ Filled.pivot_high[1] # Filled.pivot_high[Len(Filled.pivot_high)]
    /\ Raw.macd_signal[MacdRows - 1] = None

\* The series is malformed: its timestamps do not strictly increase, or a
\* bar has its close outside low .. high
Malformed(market_data) ==
    \/ \E i \in 1..(Len(market_data) - 1) :
          market_data[i + 1].ts <= market_data[i].ts
    \/ \E i \in 1..Len(market_data) :
          \/ market_data[i].close > market_data[i].high
          \/ market_data[i].close < market_data[i].low

\* C16: on a malformed series the engine raises MalformedSeriesError and
\* computes no indicators.
C16_MalformedSeriesError ==
    IsSome(engine) /\ Malformed(Val(engine).market_data) =>
        /\ Val(engine).exc = Some("MalformedSeriesError")
        /\ Val(engine).ind = None

---------------------------------------------------------------------------
(* Properties of the signal in the cycle                                   *)

\* Task i holds an analysis result with a signal
TaskHasSignal(i) ==
    /\ cycle # "idle"
    /\ tasks[i].analysis_result # None
    /\ Val(tasks[i].analysis_result).signal # None

TaskSignal(i) == Val(Val(tasks[i].analysis_result).signal)

\* The fields of a signal that _generate_signal sets
Created(signal) ==
    [symbol |-> signal.symbol, signal_type |-> signal.signal_type,
     timestamp |-> signal.timestamp, price |-> signal.price,
     supertrend_value |-> signal.supertrend_value,
     trend_direction |-> signal.trend_direction,
     entry_price |-> signal.entry_price, stop_loss |-> signal.stop_loss,
     take_profit |-> signal.take_profit,
     support_level |-> signal.support_level,
     resistance_level |-> signal.resistance_level]

\* The AI answer of task i passes the validation of lines 53-76
TaskValidated(i) ==
    /\ tasks[i].ai_insight # None
    /\ Val(tasks[i].ai_insight).conclusion = TaskSignal(i).signal_type
    /\ Val(tasks[i].ai_insight).confidence >= AI_CONFIDENCE_THRESHOLD

\* C17: no step of the cycle changes a field that _generate_signal set in
\* the signal a task holds (symbol, kind, timestamp, price, envelope value,
\* primary trend, entry, stop-loss, take-profit, support, resistance); the
\* only step that changes the signal at all is the validation of its AI
\* answer, which writes the annotation and the higher-timeframe trend, and a
\* signal whose answer fails validation stays as it was created.
C17_SignalFrame ==
    [][\A i \in Pairs :
          TaskHasSignal(i) =>
             /\ TaskHasSignal(i)'
             /\ Created(TaskSignal(i))' = Created(TaskSignal(i))
             /\ TaskSignal(i)' # TaskSignal(i) =>
                   /\ tasks[i].pc = "insight"
                   /\ TaskValidated(i)'
                   /\ TaskSignal(i)' =
                         [TaskSignal(i) EXCEPT
                            !.ai_insight = tasks'[i].ai_insight,
                            !.ai_confidence_score =
                                Some(Val(tasks'[i].ai_insight).confidence),
                            !.higher_tf_trend =
                                Some(Val(tasks[i].analysis_result).higher_tf_trend)]
             /\ (tasks[i].pc = "insight" /\ ~TaskValidated(i)') =>
                   TaskSignal(i)' = TaskSignal(i)]_vars

\* A cycle has ended in which one task's signal was validated and annotated
\* and sent, and another task's signal, with optional levels, was rejected
C17_Witness ==
    /\ cycle = "done"
    /\ \E i \in Pairs :
          /\ TaskHasSignal(i) /\ TaskValidated(i)
          /\ TaskSignal(i).ai_insight # None
          /\ TaskSignal(i).support_level # None
          /\ SignalNotificationsOf(i) # << >>
    /\ \E i \in Pairs :
          /\ TaskHasSignal(i) /\ tasks[i].ai_insight # None
          /\ ~TaskValidated(i)
          /\ TaskSignal(i).ai_insight = None

\* The signal notifications of the cycle that name pair
NotificationsFor(pair) ==
    SelectSeq(sent, LAMBDA m : m.kind = "signal" /\ Val(m.signal).symbol = pair)

\* Task i met every condition of a notification
MayNotify(i) ==
    /\ TaskHasSignal(i)
    /\ TaskSignal(i).signal_type \in {"BUY", "SELL"}
    /\ settings.GEMINI_ANALYSIS_ENABLED
    /\ TaskValidated(i)
    /\ settings.ENABLE_NOTIFICATIONS

\* A signal notification is sent only for a task that met every condition
OnlyIfValidated ==
    /\ \A k \in 1..Len(sent) :
          sent[k].kind = "signal" => MayNotify(sent[k].pair)
    /\ ~settings.GEMINI_ANALYSIS_ENABLED =>
          \A k \in 1..Len(sent) : sent[k].kind # "signal"

\* C19: in a cycle at most one signal notification is sent for a pair, and
\* one is sent only if the analysis returned a BUY or SELL signal, AI
\* analysis is enabled, the AI conclusion is the signal's kind, the AI
\* confidence is at least AI_CONFIDENCE_THRESHOLD and notifications are
\* enabled; with AI analysis disabled none is sent.
C19_NotifiedAtMostOnceAndOnlyIfValidated ==
    /\ \A i \in Pairs : Len(NotificationsFor(TRADING_PAIRS[i])) <= 1
    /\ OnlyIfValidated

\* The call of task i failed: it raised, or its response lacks a field
AiCallFailed(i) ==
    /\ cycle # "idle"
    /\ tasks[i].ai_call # None
    /\ \/ Val(tasks[i].ai_call).raised
       \/ Val(tasks[i].ai_call).insight = None
       \/ Val(tasks[i].ai_call).conclusion = None
       \/ Val(tasks[i].ai_call).confidence = None

\* C20: when the AI call of a task raises, or its response lacks the
\* insight, the conclusion or the confidence, get_confluence_insight raises
\* nothing and returns the conclusion NEUTRAL with confidence 0, and the
\* signal is rejected: it carries no annotation and no notification is sent
\* for the task.
C20_FailedCallRejectsSignal ==
    \A i \in Pairs :
        AiCallFailed(i) =>
            /\ tasks[i].exc = None
            /\ tasks[i].ai_insight # None
            /\ Val(tasks[i].ai_insight).conclusion = "NEUTRAL"
            /\ Val(tasks[i].ai_insight).confidence = 0
            /\ tasks[i].pc = "done"
            /\ TaskSignal(i).ai_insight = None
            /\ TaskSignal(i).ai_confidence_score = None
            /\ SignalNotificationsOf(i) = << >>
            /\ cycle = "done" => ErrorNotificationsOf(i) = << >>

\* A cycle with notifications on has ended in which the call of one task
\* raised and the response to another task named a conclusion and a
\* confidence that would have passed, without an insight
C20_Witness ==
    /\ cycle = "done"
    /\ settings.ENABLE_NOTIFICATIONS
    /\ \E i \in Pairs : AiCallFailed(i) /\ Val(tasks[i].ai_call).raised
    /\ \E i \in Pairs :
          /\ AiCallFailed(i) /\ ~Val(tasks[i].ai_call).raised
          /\ Val(tasks[i].ai_call).conclusion = Some(TaskSignal(i).signal_type)
          /\ Val(tasks[i].ai_call).confidence = Some(AI_CONFIDENCE_THRESHOLD)

---------------------------------------------------------------------------
(* Properties of the higher-timeframe trend                                *)

\* The envelope direction of the bar of the higher series of the last call
\* that has the greatest timestamp
LatestHigherDirection ==
    supertrend(SortByTs(higher, << >>))[Len(higher)].direction

\* C18: the higher-timeframe trend of a returned result is that of the
\* latest bar of the higher series, the one with the greatest timestamp:
\* BULLISH when its direction is +1, BEARISH when it is -1, and never
\* NEUTRAL; a signal is gated by the same trend; and the higher series is
\* processed first: when it cannot be processed the call ends there, before
\* the primary series is touched.
C18_HigherTrendIsLatestDirection ==
    /\ Returned =>
          /\ LatestHigherDirection \in {1, -1}
          /\ LatestHigherDirection = 1 => Result.higher_tf_trend = "BULLISH"
          /\ LatestHigherDirection = -1 => Result.higher_tf_trend = "BEARISH"
          /\ Result.higher_tf_trend # "NEUTRAL"
          /\ HasSignal =>
                (Signal.signal_type = "BUY") = (LatestHigherDirection = 1)
    /\ (Called /\ Len(higher) < MacdRows) =>
          ~Returned /\ Locals.step = "higher"

\* A call has returned a result for a higher series that was given latest
\* bar first
C18_Witness ==
    /\ Returned
    /\ higher[1].ts > higher[Len(higher)].ts
    /\ Result.higher_tf_trend = "BULLISH"


\* What the bar supplier gave task i keeps the analysis from running: a fetch
\* raised, a series is empty, or a series is shorter than its minimum
SupplierFailed(i) ==
    LET g == Val(tasks[i].gathered)
    IN /\ tasks[i].gathered # None
       /\ \/ g.raised
          \/ g.primary_market_data = << >>
          \/ Len(g.primary_market_data) < MinPrimaryBars
          \/ g.higher_market_data = << >>
          \/ Len(g.higher_market_data) < MinHigherBars

\* C21: when the bar supplier raises for either timeframe, or returns an
\* empty series, fewer than 50 primary bars or fewer than 20 higher-timeframe
\* bars, _run_technical_analysis does not invoke analyze_market, raises
\* nothing and yields no result: the task of the pair ends with no signal,
\* no request to the AI service and no notification of either kind.
C21_NoAnalysisWithoutBars ==
    \A i \in Pairs :
        (cycle # "idle" /\ SupplierFailed(i)) =>
            /\ ~tasks[i].analysed
            /\ tasks[i].analysis_result = None
            /\ tasks[i].exc = None
            /\ tasks[i].pc = "done"
            /\ tasks[i].ai_call = None
            /\ tasks[i].ai_insight = None
            /\ SignalNotificationsOf(i) = << >>
            /\ ErrorNotificationsOf(i) = << >>

\* A finished cycle in which one task's fetch raised and another task got a
\* primary series one bar short of the minimum
C21_Witness ==
    /\ cycle = "done"
    /\ \E i, j \in Pairs :
          /\ SupplierFailed(i) /\ Val(tasks[i].gathered).raised
          /\ SupplierFailed(j) /\ ~Val(tasks[j].gathered).raised
          /\ Len(Val(tasks[j].gathered).primary_market_data)
                = MinPrimaryBars - 1
          /\ Len(Val(tasks[j].gathered).higher_market_data) >= MinHigherBars


\* The run of main, and whether a task of the cycle is at work
Main == Val(app)
Constructed == app # None /\ Main.trading_use_case
ShutDown == app # None /\ Main.shutdown
PairAtWork == cycle \in {"idle", "gather", "report"}

\* C22: in every run of main in which the TradingUseCase was constructed,
\* shutdown_services is eventually called, whether initialization and the
\* cycle return or raise, and after it the exchange connection is not left
\* open unless its close itself raised; the services are initialized
\* before any pair is analysed, and no step of the cycle follows the
\* shutdown.
C22_ShutdownAlwaysFollows ==
    /\ [](Constructed => <>ShutDown)
    /\ [](ShutDown => (Main.exchange # Some("open") \/ Main.close_raised))
    /\ [](tasks # << >> =>
            (Main.initialized /\ Main.exchange # None))
    /\ [](PairAtWork => (Main.initialized /\ ~Main.shutdown
                          /\ Main.exchange = Some("open")))
    /\ [][ShutDown => (tasks' = tasks /\ cycle' = cycle /\ sent' = sent)]_vars

\* main has exited after an exception left the cycle, with the use case
\* shut down and the connection closed
C22_Witness ==
    /\ app # None
    /\ Main.pc = "exit"
    /\ cycle = "raised"
    /\ Main.exc # None
    /\ Main.exit_code = Some(1)
    /\ Main.shutdown
    /\ Main.exchange = Some("closed")
    /\ \E i \in Pairs : tasks[i].analysed


\* The error notifications whose text names the pair name (line 164:
\* "Gagal memproses {pair}: {result}" with the pair of the task's position)
ErrorNotificationsNaming(name) ==
    SelectSeq(sent, LAMBDA m : m.kind = "error" /\ TRADING_PAIRS[m.pair] = name)

\* No error notification is sent before every task has ended
ReportedAfterGather ==
    (\E k \in 1..Len(sent) : sent[k].kind = "error") =>
        /\ cycle = "done"
        /\ \A i \in Pairs : tasks[i].pc = "done"

\* After the report each task that raised has exactly one error
\* notification of its own position when notifications are on, and every
\* other task has none
ReportedOncePerTask ==
    cycle = "done" =>
        \A i \in Pairs :
            Len(ErrorNotificationsOf(i)) =
                IF tasks[i].exc # None /\ settings.ENABLE_NOTIFICATIONS
                THEN 1 ELSE 0

\* C23: in analyze_and_notify error notifications are sent only after every
\* pair's task has finished; for each pair whose task ended with an
\* exception exactly one error notification naming that pair is sent when
\* notifications are enabled and none when they are disabled, and none is
\* sent for a pair whose task completed normally.
C23_OneErrorNotificationPerFailedPair ==
    /\ ReportedAfterGather
    /\ cycle = "done" =>
          \A i \in Pairs :
              Len(ErrorNotificationsNaming(TRADING_PAIRS[i])) =
                  IF tasks[i].exc # None /\ settings.ENABLE_NOTIFICATIONS
                  THEN 1 ELSE 0


\* The risk levels of the signal are on their sides of the entry
RiskLevelsOrdered ==
    /\ Signal.signal_type = "BUY" =>
          /\ Signal.stop_loss <= Signal.entry_price
          /\ Signal.entry_price <= Signal.take_profit
    /\ Signal.signal_type = "SELL" =>
          /\ Signal.take_profit <= Signal.entry_price
          /\ Signal.entry_price <= Signal.stop_loss

\* C24: every produced signal has ordered risk levels: for a BUY
\* stop_loss <= entry_price <= take_profit, for a SELL
\* take_profit <= entry_price <= stop_loss.
C24_RiskLevelsOrdered == HasSignal => RiskLevelsOrdered

\* What the code keeps: the take-profit is always on its side of the entry,
\* and the stop-loss is on its side when the multiplier is the default 3.0
TakeProfitOrderedStopByDefault ==
    HasSignal =>
        /\ Signal.signal_type = "BUY" =>
              Signal.entry_price <= Signal.take_profit
        /\ Signal.signal_type = "SELL" =>
              Signal.take_profit <= Signal.entry_price
        /\ settings.ATR_FACTOR = DefaultSettings.ATR_FACTOR =>
              RiskLevelsOrdered


\* The indicator snapshot of the result
Snapshot == Result.indicator_data

\* C25: in every AnalysisResult that carries a signal, a BUY has primary
\* trend BULLISH and the result's higher-timeframe trend BULLISH, a SELL
\* has both BEARISH; the signal's trend direction, support, resistance and
\* timestamp equal those of the indicator snapshot, and its trigger price
\* equals the close of the latest primary bar.
C25_SignalAgreesWithResult ==
    HasSignal =>
        /\ Signal.signal_type \in {"BUY", "SELL"}
        /\ Signal.signal_type = "BUY" =>
              /\ Signal.trend_direction = "BULLISH"
              /\ Snapshot.trend_direction = "BULLISH"
              /\ Result.higher_tf_trend = "BULLISH"
        /\ Signal.signal_type = "SELL" =>
              /\ Signal.trend_direction = "BEARISH"
              /\ Snapshot.trend_direction = "BEARISH"
              /\ Result.higher_tf_trend = "BEARISH"
        /\ Signal.trend_direction = Snapshot.trend_direction
        /\ Signal.support_level = Snapshot.support_level
        /\ Signal.resistance_level = Snapshot.resistance_level
        /\ Signal.timestamp = Snapshot.timestamp
        /\ Signal.timestamp = Frame.rows[LastRow].ts
        /\ Signal.price = LatestClose
        /\ Signal.price = Result.market_data.close

\* A result carrying a SELL with a support level, computed on the longest
\* series of the model
C25_Witness ==
    /\ HasSignal
    /\ Signal.signal_type = "SELL"
    /\ Result.higher_tf_trend = "BEARISH"
    /\ Signal.support_level # None
    /\ Snapshot.support_level # None
    /\ Len(primary) = SetMax(PrimaryLens)

=============================================================================
